---- MODULE Spec2Model ----
(***************************************************************************)
(* Model of the bounded-concurrency batch scheduler of                     *)
(* src/src/types/pagination.ts: chunkArray, processChunksInParallel,       *)
(* processChunksInParallelWithSum, processPaginatedInParallel and          *)
(* processPaginatedWithProgress, and of compareListsByKey of                *)
(* src/src/utils/arrayUtils.ts.                                            *)
(*                                                                         *)
(* One behaviour is one call of one of the four async functions.  The      *)
(* caller-supplied callbacks return promises; the environment settles      *)
(* every started promise in any order (readPage_settles,                   *)
(* processChunk_settles).  A promise is a record [state, value].           *)
(* Continuations of `await` run as separate steps, as in the JavaScript    *)
(* job queue.  Spec is the scheduler; SpecCompare applies the synchronous  *)
(* compareListsByKey to every pair of lists within the bounds; FairSpec is  *)
(* Spec with the fairness of the job queue and of settling operations.     *)
(***************************************************************************)
EXTENDS Integers, Sequences, FiniteSets, TLC

\* ---- bounds of the model ------------------------------------------------
MaxItems == 4
MaxChunkSize == 2
MaxConcurrency == 2
MaxTotalCount == 4
MaxPageSize == 2
MaxSpin == 2
MaxList == 2

ItemValues == {1, 2}

VARIABLES
    fn,              \* the exported function that is called
    items,           \* argument items
    chunkSize,       \* argument chunkSize
    totalCount,      \* argument totalCount
    pageSize,        \* argument pageSize
    maxConcurrency,  \* argument maxConcurrency
    onProgress,      \* TRUE iff the optional onProgress argument is supplied
    pc,              \* position of the scheduler function
    chunks,          \* const chunks (processChunksInParallel), chunks (chunkArray)
    results,         \* const results: R[]
    allResults,      \* const allResults: T[]
    i,               \* loop variable i of the wave loop
    batch,           \* indices of the chunks / pages of the wave being awaited
    promises,        \* promise returned by processChunk / readPage, per index
    wrapped,         \* promise returned by readPageWithProgress, per page index
    microtasks,      \* pages whose readPageWithProgress continuation is queued
    all,             \* the promise of Promise.all for the current wave
    ret,             \* promise of processChunksInParallel / processPaginatedInParallel
    outer,           \* promise of processChunksInParallelWithSum / processPaginatedWithProgress
    recordsProcessed,\* let recordsProcessed
    progressLog,     \* history: the onProgress invocations, in order
    calls,           \* history: the processChunk / readPage invocations, in order
    settleLog,       \* history: the settlements of callback promises, in order
    waves,           \* history: number of waves started
    sourceList,      \* argument sourceList of compareListsByKey
    targetList,      \* argument targetList of compareListsByKey
    transformFound,  \* TRUE iff the optional transformFound argument is supplied
    found,           \* const found: R[]
    notFound,        \* const notFound: U[]
    cpc              \* position of compareListsByKey

vars == <<fn, items, chunkSize, totalCount, pageSize, maxConcurrency, onProgress,
          pc, chunks, results, allResults, i, batch, promises, wrapped,
          microtasks, all, ret, outer, recordsProcessed, progressLog, calls,
          settleLog, waves, sourceList, targetList, transformFound, found,
          notFound, cpc>>

compareVars == <<sourceList, targetList, transformFound, found, notFound, cpc>>

inputs == <<fn, items, chunkSize, totalCount, pageSize, maxConcurrency, onProgress>>

\* ---- values -------------------------------------------------------------
ChunkFns == {"processChunksInParallel", "processChunksInParallelWithSum"}
PageFns == {"processPaginatedInParallel", "processPaginatedWithProgress"}

Pending == [state |-> "pending", value |-> <<>>]
Fulfilled(v) == [state |-> "fulfilled", value |-> v]
Rejected(e) == [state |-> "rejected", value |-> e]
Error(src, op) == [error |-> src, op |-> op]

\* JavaScript numbers that are not finite, as they reach onProgress
NaN == "NaN"
Infinity == "Infinity"

Range(s) == {s[j] : j \in DOMAIN s}
Min(a, b) == IF a < b THEN a ELSE b

RECURSIVE Flatten(_)
Flatten(ss) == IF Len(ss) = 0 THEN <<>> ELSE Head(ss) \o Flatten(Tail(ss))

RECURSIVE SumSeq(_)
SumSeq(s) == IF Len(s) = 0 THEN 0 ELSE Head(s) + SumSeq(Tail(s))

\* ---- pure functions of the source ---------------------------------------
\* variant: the element at index end is included
sliceInclusive(array, start, end) ==
    LET e == Min(end + 1, Len(array))
    IN  IF start >= e THEN <<>> ELSE [j \in 1..(e - start) |-> array[start + j]]

\* Array.prototype.slice(start, end) for 0 <= start: end is exclusive and
\* clamped to the length
slice(array, start, end) ==
    LET e == Min(end, Len(array))
    IN  IF start >= e THEN <<>> ELSE [j \in 1..(e - start) |-> array[start + j]]

\* the for loop of chunkArray, from loop variable idx with chunks acc
RECURSIVE chunkArrayLoop(_, _, _, _)
chunkArrayLoop(array, size, idx, acc) ==
    IF idx < Len(array)
    THEN chunkArrayLoop(array, size, idx + size,
                        Append(acc, slice(array, idx, idx + size)))
    ELSE acc

chunkArray(array, size) == chunkArrayLoop(array, size, 0, <<>>)

\* the loop of chunkArray ends iff i grows or the array is empty
chunkArrayTerminates(array, size) == size >= 1 \/ Len(array) = 0

\* Math.ceil(totalCount / pageSize): finite for pageSize >= 1, Infinity for
\* x/0 with x > 0, NaN for 0/0
totalPages ==
    IF pageSize >= 1 THEN (totalCount + pageSize - 1) \div pageSize
    ELSE IF totalCount > 0 THEN Infinity ELSE NaN

\* variant: <= instead of <
loopConditionInclusive(idx) ==
    IF pageSize >= 1 THEN idx <= totalPages ELSE totalCount > 0

\* i < totalPages: true against Infinity, false against NaN
loopCondition(idx) ==
    IF pageSize >= 1 THEN idx < totalPages ELSE totalCount > 0

\* variant: the batch end is not clipped to totalPages
batchEndNoClip(idx) == idx + maxConcurrency

\* Math.min(i + maxConcurrency, totalPages)
batchEndOf(idx) ==
    IF pageSize >= 1 THEN Min(idx + maxConcurrency, totalPages)
    ELSE idx + maxConcurrency

offsetOf(pageIndex) == pageIndex * pageSize

\* variant: the limit of the last page is not clipped
limitNoClip(pageIndex) == pageSize

limitOf(pageIndex) == Min(pageSize, totalCount - offsetOf(pageIndex))

\* Math.floor(offset / pageSize) + 1; 0/0 is NaN
currentPageOf(offset) ==
    IF pageSize >= 1 THEN (offset \div pageSize) + 1 ELSE NaN

\* variant: the callback returns result instead of total + result
RECURSIVE reduceLast(_, _)
reduceLast(rs, total) ==
    IF Len(rs) = 0 THEN total ELSE reduceLast(Tail(rs), Head(rs))

\* results.reduce((total, result) => total + result, 0)
RECURSIVE reduceSum(_, _)
reduceSum(rs, total) ==
    IF Len(rs) = 0 THEN total ELSE reduceSum(Tail(rs), total + Head(rs))

\* [offset, offset + limit): the records of one full page
range(offset, limit) == [j \in 1..limit |-> offset + j - 1]

\* what the callbacks may settle with
processChunkOutcomes(k, chunk) ==
    {Fulfilled(SumSeq(chunk)), Fulfilled(0), Rejected(Error("processChunk", k))}

readPageOutcomes(p, offset, limit) ==
    {Fulfilled(range(offset, limit)), Fulfilled(<<>>), Rejected(Error("readPage", p))}

\* ---- Promise.all --------------------------------------------------------
\* the promise each element of the Promise.all argument is
observed(proms, wraps) ==
    IF fn = "processPaginatedWithProgress" THEN wraps ELSE proms

\* variant: fulfils with the values in the order the elements settled
allAfterCompletionOrder(allP, b, proms, k) ==
    LET earlier(e) == e.op \in Range(b) /\ e.op # k
        before == SelectSeq(settleLog, earlier)
        order == [j \in 1..Len(before) |-> before[j].op] \o <<k>>
    IN  IF allP.state # "pending" \/ k \notin Range(b) THEN allP
        ELSE IF proms[k].state = "rejected" THEN Rejected(proms[k].value)
        ELSE IF \A j \in 1..Len(b) : proms[b[j]].state = "fulfilled"
             THEN Fulfilled([j \in 1..Len(order) |-> proms[order[j]].value])
        ELSE allP

\* variant: fulfils as soon as one element is fulfilled, with the values of
\* the elements fulfilled so far
allAfterFirstFulfilled(allP, b, proms, k) ==
    LET isFulfilled(x) == proms[x].state = "fulfilled"
        ready == SelectSeq(b, isFulfilled)
    IN  IF allP.state # "pending" \/ k \notin Range(b) THEN allP
        ELSE IF proms[k].state = "rejected" THEN Rejected(proms[k].value)
        ELSE Fulfilled([j \in 1..Len(ready) |-> proms[ready[j]].value])

\* variant: waits for every element and ignores rejections (Promise.allSettled)
allAfterAllSettled(allP, b, proms, k) ==
    IF allP.state # "pending" \/ k \notin Range(b) THEN allP
    ELSE IF \A j \in 1..Len(b) : proms[b[j]].state # "pending"
         THEN Fulfilled([j \in 1..Len(b) |-> proms[b[j]].value])
    ELSE allP

\* reaction of Promise.all(b) to the settlement of its element k: the first
\* rejection rejects it, the last fulfilment fulfils it with the values in
\* the order of b
allAfter(allP, b, proms, k) ==
    IF allP.state # "pending" \/ k \notin Range(b) THEN allP
    ELSE IF proms[k].state = "rejected" THEN Rejected(proms[k].value)
    ELSE IF \A j \in 1..Len(b) : proms[b[j]].state = "fulfilled"
         THEN Fulfilled([j \in 1..Len(b) |-> proms[b[j]].value])
    ELSE allP

\* variant: the array of promises is awaited without Promise.all, which
\* does not wait for them
allOfNotAwaited(b) == Fulfilled(<<>>)

\* Promise.all of a freshly built array: already fulfilled if it is empty
allOf(b) == IF Len(b) = 0 THEN Fulfilled(<<>>) ELSE Pending

\* the started promises extended by pending ones for the indices ids
started(proms, ids) ==
    [k \in (DOMAIN proms) \cup Range(ids) |->
        IF k \in DOMAIN proms THEN proms[k] ELSE Pending]

\* ---- initial states -----------------------------------------------------
ItemSeqs == UNION {[1..n -> ItemValues] : n \in 0..MaxItems}

Init ==
    /\ fn \in ChunkFns \cup PageFns
    /\ maxConcurrency \in 0..MaxConcurrency
    /\ IF fn \in ChunkFns
       THEN /\ items \in ItemSeqs
            /\ chunkSize \in 0..MaxChunkSize
            /\ totalCount = 0
            /\ pageSize = 1
       ELSE /\ items = <<>>
            /\ chunkSize = 1
            /\ totalCount \in 0..MaxTotalCount
            /\ pageSize \in 0..MaxPageSize
    /\ onProgress \in (IF fn = "processPaginatedWithProgress" THEN BOOLEAN ELSE {FALSE})
    /\ pc = "start"
    /\ chunks = <<>>
    /\ results = <<>>
    /\ allResults = <<>>
    /\ i = 0
    /\ batch = <<>>
    /\ promises = <<>>
    /\ wrapped = <<>>
    /\ microtasks = <<>>
    /\ all = Pending
    /\ ret = Pending
    /\ outer = Pending
    /\ recordsProcessed = 0
    /\ progressLog = <<>>
    /\ calls = <<>>
    /\ settleLog = <<>>
    /\ waves = 0
    /\ sourceList = <<>>
    /\ targetList = <<>>
    /\ transformFound = FALSE
    /\ found = <<>>
    /\ notFound = <<>>
    /\ cpc = "idle"

\* ---- chunkArray that never returns ---------------------------------------
\* chunkSize < 1 and a non-empty array: i never reaches array.length, the
\* loop pushes array.slice(i, i + chunkSize) for ever
chunkArray_spin ==
    /\ fn \in ChunkFns
    /\ pc \in {"start", "chunkArray"}
    /\ ~chunkArrayTerminates(items, chunkSize)
    /\ Len(chunks) < MaxSpin
    /\ chunks' = Append(chunks, slice(items, 0, 0 + chunkSize))
    /\ pc' = "chunkArray"
    /\ UNCHANGED <<compareVars, inputs, results, allResults, i, batch, promises, wrapped,
                   microtasks, all, ret, outer, recordsProcessed, progressLog,
                   calls, settleLog, waves>>

\* ---- processChunksInParallel --------------------------------------------
processChunksInParallel_call ==
    /\ fn \in ChunkFns
    /\ pc = "start"
    /\ chunkArrayTerminates(items, chunkSize)
    /\ chunks' = chunkArray(items, chunkSize)
    /\ results' = <<>>
    /\ i' = 0
    /\ pc' = "loop"
    /\ UNCHANGED <<compareVars, inputs, allResults, batch, promises, wrapped, microtasks,
                   all, ret, outer, recordsProcessed, progressLog, calls,
                   settleLog, waves>>

\* one iteration of the loop up to the await: every chunk of the batch is
\* passed to processChunk, the promises go to Promise.all
processChunksInParallel_batch ==
    /\ fn \in ChunkFns
    /\ pc = "loop"
    /\ i < Len(chunks)
    /\ maxConcurrency >= 1 \/ waves < MaxSpin
    /\ LET b == slice(chunks, i, i + maxConcurrency)
           ids == [j \in 1..Len(b) |-> i + j - 1]
       IN  /\ batch' = ids
           /\ promises' = started(promises, ids)
           /\ calls' = calls \o [j \in 1..Len(b) |->
                                   [op |-> ids[j], args |-> b[j], wave |-> waves + 1]]
           /\ all' = allOf(ids)
    /\ waves' = waves + 1
    /\ pc' = "await"
    /\ UNCHANGED <<compareVars, inputs, chunks, results, allResults, i, wrapped, microtasks,
                   ret, outer, recordsProcessed, progressLog, settleLog>>

\* variant: i++ instead of i += maxConcurrency
processChunksInParallel_resumeStepOne ==
    /\ fn \in ChunkFns
    /\ pc = "await"
    /\ all.state # "pending"
    /\ IF all.state = "fulfilled"
       THEN /\ results' = results \o all.value
            /\ i' = i + 1
            /\ pc' = "loop"
            /\ ret' = ret
       ELSE /\ ret' = Rejected(all.value)
            /\ pc' = "returned"
            /\ UNCHANGED <<results, i>>
    /\ UNCHANGED <<compareVars, inputs, chunks, allResults, batch, promises,
                   wrapped, microtasks, all, outer, recordsProcessed,
                   progressLog, calls, settleLog, waves>>

\* the await of Promise.all resumes: push the batch results and step i, or
\* throw the rejection out of the function
processChunksInParallel_resume ==
    /\ fn \in ChunkFns
    /\ pc = "await"
    /\ all.state # "pending"
    /\ IF all.state = "fulfilled"
       THEN /\ results' = results \o all.value
            /\ i' = i + maxConcurrency
            /\ pc' = "loop"
            /\ ret' = ret
       ELSE /\ ret' = Rejected(all.value)
            /\ pc' = "returned"
            /\ UNCHANGED <<results, i>>
    /\ UNCHANGED <<compareVars, inputs, chunks, allResults, batch, promises, wrapped,
                   microtasks, all, outer, recordsProcessed, progressLog,
                   calls, settleLog, waves>>

processChunksInParallel_return ==
    /\ fn \in ChunkFns
    /\ pc = "loop"
    /\ ~(i < Len(chunks))
    /\ ret' = Fulfilled(results)
    /\ pc' = "returned"
    /\ UNCHANGED <<compareVars, inputs, chunks, results, allResults, i, batch, promises,
                   wrapped, microtasks, all, outer, recordsProcessed,
                   progressLog, calls, settleLog, waves>>

\* the promise of processChunk(chunks[k]) settles
processChunk_settles ==
    /\ fn \in ChunkFns
    /\ \E k \in DOMAIN promises :
        /\ promises[k].state = "pending"
        /\ \E outcome \in processChunkOutcomes(k, chunks[k + 1]) :
            /\ promises' = [promises EXCEPT ![k] = outcome]
            /\ settleLog' = Append(settleLog, [op |-> k, outcome |-> outcome])
            /\ all' = allAfter(all, batch, promises', k)
    /\ UNCHANGED <<compareVars, inputs, pc, chunks, results, allResults, i, batch, wrapped,
                   microtasks, ret, outer, recordsProcessed, progressLog,
                   calls, waves>>

\* ---- processChunksInParallelWithSum -------------------------------------
\* the await of processChunksInParallel resumes: reduce, or rethrow
processChunksInParallelWithSum_resume ==
    /\ fn = "processChunksInParallelWithSum"
    /\ ret.state # "pending"
    /\ outer.state = "pending"
    /\ outer' = IF ret.state = "fulfilled"
                THEN Fulfilled(reduceSum(ret.value, 0))
                ELSE Rejected(ret.value)
    /\ UNCHANGED <<compareVars, inputs, pc, chunks, results, allResults, i, batch, promises,
                   wrapped, microtasks, all, ret, recordsProcessed,
                   progressLog, calls, settleLog, waves>>

\* ---- processPaginatedInParallel -----------------------------------------
processPaginatedInParallel_call ==
    /\ fn \in PageFns
    /\ pc = "start"
    /\ allResults' = <<>>
    /\ recordsProcessed' = 0
    /\ i' = 0
    /\ pc' = "loop"
    /\ UNCHANGED <<compareVars, inputs, chunks, results, batch, promises, wrapped,
                   microtasks, all, ret, outer, progressLog, calls, settleLog,
                   waves>>

\* one iteration of the loop up to the await: readPage (through
\* readPageWithProgress when that is the callback) is invoked for every page
\* of the batch, the promises go to Promise.all
processPaginatedInParallel_batch ==
    /\ fn \in PageFns
    /\ pc = "loop"
    /\ loopCondition(i)
    /\ (maxConcurrency >= 1 /\ pageSize >= 1) \/ waves < MaxSpin
    /\ LET batchStart == i
           batchEnd == batchEndOf(i)
           ids == [j \in 1..(batchEnd - batchStart) |-> batchStart + j - 1]
       IN  /\ batch' = ids
           /\ promises' = started(promises, ids)
           /\ wrapped' = IF fn = "processPaginatedWithProgress"
                         THEN started(wrapped, ids) ELSE wrapped
           /\ calls' = calls \o [j \in 1..Len(ids) |->
                                   [op |-> ids[j],
                                    args |-> <<offsetOf(ids[j]), limitOf(ids[j])>>,
                                    wave |-> waves + 1]]
           /\ all' = allOf(ids)
    /\ waves' = waves + 1
    /\ pc' = "await"
    /\ UNCHANGED <<compareVars, inputs, chunks, results, allResults, i, microtasks, ret,
                   outer, recordsProcessed, progressLog, settleLog>>

\* the await of Promise.all resumes: flatten the page results into
\* allResults and step i, or throw the rejection out of the function
processPaginatedInParallel_resume ==
    /\ fn \in PageFns
    /\ pc = "await"
    /\ all.state # "pending"
    /\ IF all.state = "fulfilled"
       THEN /\ allResults' = allResults \o Flatten(all.value)
            /\ i' = i + maxConcurrency
            /\ pc' = "loop"
            /\ ret' = ret
       ELSE /\ ret' = Rejected(all.value)
            /\ pc' = "returned"
            /\ UNCHANGED <<allResults, i>>
    /\ UNCHANGED <<compareVars, inputs, chunks, results, batch, promises, wrapped,
                   microtasks, all, outer, recordsProcessed, progressLog,
                   calls, settleLog, waves>>

processPaginatedInParallel_return ==
    /\ fn \in PageFns
    /\ pc = "loop"
    /\ ~loopCondition(i)
    /\ ret' = Fulfilled(allResults)
    /\ pc' = "returned"
    /\ UNCHANGED <<compareVars, inputs, chunks, results, allResults, i, batch, promises,
                   wrapped, microtasks, all, outer, recordsProcessed,
                   progressLog, calls, settleLog, waves>>

\* the promise of readPage(offset, limit) for page p settles; under
\* readPageWithProgress its continuation is queued
readPage_settles ==
    /\ fn \in PageFns
    /\ \E p \in DOMAIN promises :
        /\ promises[p].state = "pending"
        /\ \E outcome \in readPageOutcomes(p, offsetOf(p), limitOf(p)) :
            /\ promises' = [promises EXCEPT ![p] = outcome]
            /\ settleLog' = Append(settleLog, [op |-> p, outcome |-> outcome])
            /\ IF fn = "processPaginatedWithProgress"
               THEN /\ microtasks' = Append(microtasks, p)
                    /\ all' = all
               ELSE /\ microtasks' = microtasks
                    /\ all' = allAfter(all, batch, promises', p)
    /\ UNCHANGED <<compareVars, inputs, pc, chunks, results, allResults, i, batch, wrapped,
                   ret, outer, recordsProcessed, progressLog, calls, waves>>

\* ---- processPaginatedWithProgress ---------------------------------------
\* variant: a rejection of readPage is caught and an empty page returned
readPageWithProgressCatch(p, inner, threw) ==
    IF inner.state = "rejected" THEN Fulfilled(<<>>)
    ELSE IF threw THEN Rejected(Error("onProgress", p))
    ELSE Fulfilled(inner.value)

\* variant: an exception of onProgress is caught
readPageWithProgressIgnoreThrow(p, inner, threw) ==
    IF inner.state = "rejected" THEN Rejected(inner.value)
    ELSE Fulfilled(inner.value)

\* variant: the page result is not returned
readPageWithProgressNoReturn(p, inner, threw) ==
    IF inner.state = "rejected" THEN Rejected(inner.value)
    ELSE IF threw THEN Rejected(Error("onProgress", p))
    ELSE Fulfilled(<<>>)

\* what readPageWithProgress settles with after `await readPage` gave inner
\* and onProgress, if called, threw or not
readPageWithProgressResult(p, inner, threw) ==
    IF inner.state = "rejected" THEN Rejected(inner.value)
    ELSE IF threw THEN Rejected(Error("onProgress", p))
    ELSE Fulfilled(inner.value)

\* variant: = instead of +=
recordsProcessedAssigned(count, inner) ==
    IF inner.state = "fulfilled" THEN Len(inner.value) ELSE count

\* recordsProcessed after the continuation that received inner
recordsProcessedAfter(count, inner) ==
    IF inner.state = "fulfilled" THEN count + Len(inner.value) ELSE count

\* the continuation of readPageWithProgress after `await readPage`
readPageWithProgress_resume ==
    /\ fn = "processPaginatedWithProgress"
    /\ microtasks # <<>>
    /\ LET p == Head(microtasks)
           inner == promises[p]
       IN  \E threw \in (IF onProgress /\ inner.state = "fulfilled"
                         THEN BOOLEAN ELSE {FALSE}) :
            /\ recordsProcessed' = recordsProcessedAfter(recordsProcessed, inner)
            /\ progressLog' =
                 IF onProgress /\ inner.state = "fulfilled"
                 THEN Append(progressLog,
                             [currentPage |-> currentPageOf(offsetOf(p)),
                              totalPages |-> totalPages,
                              recordsProcessed |-> recordsProcessed',
                              threw |-> threw])
                 ELSE progressLog
            /\ wrapped' = [wrapped EXCEPT ![p] = readPageWithProgressResult(p, inner, threw)]
            /\ all' = allAfter(all, batch, wrapped', p)
    /\ microtasks' = Tail(microtasks)
    /\ UNCHANGED <<compareVars, inputs, pc, chunks, results, allResults, i, batch, promises,
                   ret, outer, calls, settleLog, waves>>

\* `return await processPaginatedInParallel(...)` resumes
processPaginatedWithProgress_resume ==
    /\ fn = "processPaginatedWithProgress"
    /\ ret.state # "pending"
    /\ outer.state = "pending"
    /\ outer' = ret
    /\ UNCHANGED <<compareVars, inputs, pc, chunks, results, allResults, i, batch, promises,
                   wrapped, microtasks, all, ret, recordsProcessed,
                   progressLog, calls, settleLog, waves>>

\* ---- specification ------------------------------------------------------
Next ==
    \/ chunkArray_spin
    \/ processChunksInParallel_call
    \/ processChunksInParallel_batch
    \/ processChunksInParallel_resume
    \/ processChunksInParallel_return
    \/ processChunk_settles
    \/ processChunksInParallelWithSum_resume
    \/ processPaginatedInParallel_call
    \/ processPaginatedInParallel_batch
    \/ processPaginatedInParallel_resume
    \/ processPaginatedInParallel_return
    \/ readPage_settles
    \/ readPageWithProgress_resume
    \/ processPaginatedWithProgress_resume

Spec == Init /\ [][Next]_vars

\* the calls with chunkSize >= 1 (pageSize >= 1) and maxConcurrency >= 1
InitValid ==
    /\ Init
    /\ maxConcurrency >= 1
    /\ chunkSize >= 1
    /\ pageSize >= 1

\* the steps of such calls: chunkArray returns
NextValid ==
    \/ processChunksInParallel_call
    \/ processChunksInParallel_batch
    \/ processChunksInParallel_resume
    \/ processChunksInParallel_return
    \/ processChunk_settles
    \/ processChunksInParallelWithSum_resume
    \/ processPaginatedInParallel_call
    \/ processPaginatedInParallel_batch
    \/ processPaginatedInParallel_resume
    \/ processPaginatedInParallel_return
    \/ readPage_settles
    \/ readPageWithProgress_resume
    \/ processPaginatedWithProgress_resume

\* the job queue runs every continuation that is ready, synchronous code
\* runs on, and every started operation settles
Fairness ==
    /\ WF_vars(processChunksInParallel_call)
    /\ WF_vars(processChunksInParallel_batch)
    /\ WF_vars(processChunksInParallel_resume)
    /\ WF_vars(processChunksInParallel_return)
    /\ WF_vars(processChunk_settles)
    /\ WF_vars(processChunksInParallelWithSum_resume)
    /\ WF_vars(processPaginatedInParallel_call)
    /\ WF_vars(processPaginatedInParallel_batch)
    /\ WF_vars(processPaginatedInParallel_resume)
    /\ WF_vars(processPaginatedInParallel_return)
    /\ WF_vars(readPage_settles)
    /\ WF_vars(readPageWithProgress_resume)
    /\ WF_vars(processPaginatedWithProgress_resume)

FairSpec == InitValid /\ [][NextValid]_vars /\ Fairness

\* the promise the caller holds
callPromise ==
    IF fn \in {"processChunksInParallelWithSum", "processPaginatedWithProgress"}
    THEN outer ELSE ret

TypeOK ==
    /\ pc \in {"start", "chunkArray", "loop", "await", "returned"}
    /\ all.state \in {"pending", "fulfilled", "rejected"}
    /\ ret.state \in {"pending", "fulfilled", "rejected"}
    /\ outer.state \in {"pending", "fulfilled", "rejected"}

\* ---- compareListsByKey --------------------------------------------------
\* keys are string | number
NumberKey(n) == [type |-> "number", num |-> n, str |-> ""]
StringKey(t) == [type |-> "string", num |-> 0, str |-> t]

\* items: objects with a key field id, and primitive numbers, whose key
\* selector is item => item
Object(k, v) == [kind |-> "object", id |-> k, v |-> v]
Number(n) == [kind |-> "number", id |-> NumberKey(n), v |-> ""]
undefined == [kind |-> "undefined", id |-> StringKey(""), v |-> ""]

\* String(key): the decimal digits of a number, a string itself
Decimal == <<"0", "1", "2", "3">>
String(k) == IF k.type = "number" THEN Decimal[k.num + 1] ELSE k.str

\* the condition of `if (sourceItem)`: objects are truthy, the number 0 and
\* undefined are not
truthy(x) == x.kind = "object" \/ (x.kind = "number" /\ x.id.num # 0)

sourceKeySelector(item) == item.id
targetKeySelector(item) == item.id
transform(sourceItem, targetItem) == [source |-> sourceItem, target |-> targetItem]

\* variant: an entry does not replace an earlier entry with the same key
RECURSIVE MapKeepFirst(_, _)
MapKeepFirst(entries, m) ==
    IF Len(entries) = 0 THEN m
    ELSE LET e == Head(entries)
         IN  MapKeepFirst(Tail(entries),
                 [k \in (DOMAIN m) \cup {e[1]} |-> IF k \in DOMAIN m THEN m[k] ELSE e[2]])

\* new Map(entries) onto m: an entry replaces an earlier entry with its key
RECURSIVE Map(_, _)
Map(entries, m) ==
    IF Len(entries) = 0 THEN m
    ELSE LET e == Head(entries)
         IN  Map(Tail(entries),
                 [k \in (DOMAIN m) \cup {e[1]} |-> IF k = e[1] THEN e[2] ELSE m[k]])

\* sourceMap.get(k)
mapGet(m, k) == IF k \in DOMAIN m THEN m[k] ELSE undefined

\* the map without entries
emptyMap == [k \in {} |-> undefined]

\* the for loop over targetList
RECURSIVE compareLoop(_, _, _, _, _)
compareLoop(sourceMap, targets, withTransform, fnd, notFnd) ==
    IF Len(targets) = 0 THEN [found |-> fnd, notFound |-> notFnd]
    ELSE LET targetItem == Head(targets)
             sourceItem == mapGet(sourceMap, String(targetKeySelector(targetItem)))
         IN  IF truthy(sourceItem)
             THEN compareLoop(sourceMap, Tail(targets), withTransform,
                      Append(fnd, IF withTransform
                                  THEN transform(sourceItem, targetItem)
                                  ELSE sourceItem),
                      notFnd)
             ELSE compareLoop(sourceMap, Tail(targets), withTransform,
                      fnd, Append(notFnd, targetItem))

compareListsByKey(src, tgt, withTransform) ==
    compareLoop(
        Map([j \in 1..Len(src) |-> <<String(sourceKeySelector(src[j])), src[j]>>],
            emptyMap),
        tgt, withTransform, <<>>, <<>>)

SourceItems ==
    {Object(NumberKey(1), "a"), Object(NumberKey(1), "b"),
     Object(StringKey("1"), "c"), Object(NumberKey(2), "a"), Number(0)}

TargetItems ==
    {Object(NumberKey(1), "t"), Object(StringKey("2"), "t"),
     Object(NumberKey(0), "t"), Object(StringKey("3"), "t")}

InitCompare ==
    /\ sourceList \in UNION {[1..n -> SourceItems] : n \in 0..MaxList}
    /\ targetList \in UNION {[1..n -> TargetItems] : n \in 0..MaxList}
    /\ transformFound \in BOOLEAN
    /\ found = <<>>
    /\ notFound = <<>>
    /\ cpc = "start"
    /\ fn = "compareListsByKey"
    /\ items = <<>>
    /\ chunkSize = 1
    /\ totalCount = 0
    /\ pageSize = 1
    /\ maxConcurrency = 1
    /\ onProgress = FALSE
    /\ pc = "start"
    /\ chunks = <<>>
    /\ results = <<>>
    /\ allResults = <<>>
    /\ i = 0
    /\ batch = <<>>
    /\ promises = <<>>
    /\ wrapped = <<>>
    /\ microtasks = <<>>
    /\ all = Pending
    /\ ret = Pending
    /\ outer = Pending
    /\ recordsProcessed = 0
    /\ progressLog = <<>>
    /\ calls = <<>>
    /\ settleLog = <<>>
    /\ waves = 0

compareListsByKey_call ==
    /\ cpc = "start"
    /\ LET r == compareListsByKey(sourceList, targetList, transformFound)
       IN  /\ found' = r.found
           /\ notFound' = r.notFound
    /\ cpc' = "done"
    /\ UNCHANGED <<sourceList, targetList, transformFound, inputs, pc, chunks,
                   results, allResults, i, batch, promises, wrapped,
                   microtasks, all, ret, outer, recordsProcessed, progressLog,
                   calls, settleLog, waves>>

NextCompare == compareListsByKey_call

SpecCompare == InitCompare /\ [][NextCompare]_vars

\* ---- properties ---------------------------------------------------------
settled(p) == p.state # "pending"

\* the promises Promise.all waits for
operations == observed(promises, wrapped)

\* indices into settleLog of the rejections of callback promises
rejections == {j \in DOMAIN settleLog : settleLog[j].outcome.state = "rejected"}

\* the error of the callback promise that rejected first
firstRejection == settleLog[CHOOSE j \in rejections : \A m \in rejections : j <= m]

\* indices into calls of the invocations of wave w / of waves before w
callsOfWave(w) == {j \in DOMAIN calls : calls[j].wave = w}
callsBeforeWave(w) == {j \in DOMAIN calls : calls[j].wave < w}

\* C1: a successful processChunksInParallel returns, at position i, the result
\* of processChunk on the i-th chunk, and a successful
\* processPaginatedInParallel returns the page results concatenated in
\* increasing page index, whatever the order in which the operations settled.
C1_OutputInInputOrder ==
    /\ (fn \in ChunkFns /\ chunkSize >= 1 /\ maxConcurrency >= 1
            /\ ret.state = "fulfilled") =>
         /\ Len(ret.value) = Len(chunks)
         /\ \A k \in 0..(Len(chunks) - 1) :
              /\ k \in DOMAIN promises
              /\ promises[k].state = "fulfilled"
              /\ \E j \in DOMAIN calls : calls[j].op = k /\ calls[j].args = chunks[k + 1]
              /\ ret.value[k + 1] = promises[k].value
    /\ (fn \in PageFns /\ pageSize >= 1 /\ maxConcurrency >= 1
            /\ ret.state = "fulfilled") =>
         /\ \A p \in 0..(totalPages - 1) :
              p \in DOMAIN operations /\ operations[p].state = "fulfilled"
         /\ ret.value = Flatten([p \in 1..totalPages |-> operations[p - 1].value])

\* a successful run of two waves whose first wave settled in reverse order
\* and gave two different results
C1_Witness ==
    /\ fn = "processChunksInParallel"
    /\ ret.state = "fulfilled"
    /\ maxConcurrency = 2
    /\ Len(chunks) >= 3
    /\ settleLog[1].op = 1
    /\ ret.value[1] # ret.value[2]

\* C2: with maxConcurrency >= 1 at most maxConcurrency started operations
\* are unsettled, and every wave holds exactly min(maxConcurrency, chunks or
\* pages not yet started) operations.
C2_BoundedConcurrency ==
    (maxConcurrency >= 1) =>
        /\ Cardinality({k \in DOMAIN promises : ~settled(promises[k])}) <= maxConcurrency
        /\ Cardinality({k \in DOMAIN operations : ~settled(operations[k])}) <= maxConcurrency
        /\ \A w \in 1..waves :
             Cardinality(callsOfWave(w)) =
                IF fn \in ChunkFns
                THEN Min(maxConcurrency, Len(chunks) - Cardinality(callsBeforeWave(w)))
                ELSE IF pageSize >= 1
                THEN Min(maxConcurrency, totalPages - Cardinality(callsBeforeWave(w)))
                ELSE maxConcurrency

\* the second wave holds the one remaining operation while the limit is two,
\* after a first wave that had two operations in flight
C2_Witness ==
    /\ maxConcurrency = 2
    /\ waves = 2
    /\ Cardinality(callsOfWave(1)) = 2
    /\ Cardinality(callsOfWave(2)) = 1
    /\ \E k \in DOMAIN promises : ~settled(promises[k])

\* C3: no operation of a later wave is started before every operation of
\* every earlier wave has completed.
C3_WavesAreStrict ==
    \A j \in DOMAIN calls : \A m \in DOMAIN calls :
        calls[j].wave < calls[m].wave =>
            /\ settled(promises[calls[j].op])
            /\ settled(operations[calls[j].op])

\* an operation of the second wave is in flight after the two operations of
\* the first wave settled in reverse order
C3_Witness ==
    /\ waves = 2
    /\ Len(settleLog) = 2
    /\ settleLog[1].op = 1
    /\ settleLog[2].op = 0
    /\ \E j \in callsOfWave(2) : ~settled(promises[calls[j].op])

\* C4: once a processChunk promise has rejected, processChunksInParallel
\* never resolves with a value: it has failed with the error of the first
\* rejection, or it is suspended on a Promise.all that is rejected with that
\* error, and no result is returned.
C4_FailFast ==
    (fn \in ChunkFns /\ rejections # {}) =>
        /\ ret.state # "fulfilled"
        /\ \/ /\ ret.state = "rejected"
              /\ ret.value = firstRejection.outcome.value
           \/ /\ ret.state = "pending"
              /\ pc = "await"
              /\ all.state = "rejected"
              /\ all.value = firstRejection.outcome.value

\* the call failed in its second wave, with a fulfilled sibling in that wave
\* and results of the first wave already collected
C4_Witness ==
    /\ fn = "processChunksInParallel"
    /\ ret.state = "rejected"
    /\ waves = 2
    /\ Len(results) = 2
    /\ \E k \in Range(batch) : promises[k].state = "fulfilled"
    /\ \E k \in Range(batch) : promises[k].state = "rejected"

\* chunkSize < 1 (pageSize < 1) or maxConcurrency < 1
invalidArguments ==
    \/ maxConcurrency < 1
    \/ fn \in ChunkFns /\ chunkSize < 1
    \/ fn \in PageFns /\ pageSize < 1

\* C5: a call with chunkSize < 1 (pageSize < 1) or maxConcurrency < 1 fails
\* at once with an invalid-argument error and invokes no callback.

C5_InvalidArgumentsFail ==
    (invalidArguments /\ pc # "start") =>
        /\ calls = <<>>
        /\ callPromise.state = "rejected"
        /\ callPromise.value.error = "invalid-argument"

\* C6: for chunkSize >= 1 the chunks of chunkArray concatenate to the input,
\* every chunk but the last has length chunkSize, the last chunk is not
\* empty, and an empty input gives no chunk.
C6_ChunksPartitionItems ==
    (fn \in ChunkFns /\ chunkSize >= 1 /\ pc # "start") =>
        /\ Flatten(chunks) = items
        /\ \A j \in 1..(Len(chunks) - 1) : Len(chunks[j]) = chunkSize
        /\ Len(chunks) > 0 => Len(chunks[Len(chunks)]) >= 1
        /\ Len(items) = 0 => chunks = <<>>

\* three items cut into a full chunk and a shorter last chunk
C6_Witness ==
    /\ fn \in ChunkFns
    /\ pc # "start"
    /\ chunkSize = 2
    /\ Len(items) = 3
    /\ Len(chunks) = 2
    /\ Len(chunks[2]) = 1

\* C7: for pageSize >= 1 and maxConcurrency >= 1 a successful
\* processPaginatedInParallel has invoked readPage exactly once per page
\* index p < ceil(totalCount / pageSize), with offset p * pageSize and limit
\* min(pageSize, totalCount - offset), and not otherwise; each limit is in
\* 1..pageSize, offset + limit <= totalCount, and totalCount = 0 gives no
\* invocation and an empty result.
C7_PageArguments ==
    (fn \in PageFns /\ pageSize >= 1 /\ maxConcurrency >= 1
        /\ ret.state = "fulfilled") =>
        LET n == (totalCount + pageSize - 1) \div pageSize
        IN  /\ Len(calls) = n
            /\ \A p \in 0..(n - 1) :
                 LET offset == p * pageSize
                     limit == IF totalCount - offset < pageSize
                              THEN totalCount - offset ELSE pageSize
                 IN  /\ Cardinality({j \in DOMAIN calls : calls[j].op = p}) = 1
                     /\ Cardinality({j \in DOMAIN calls :
                                        calls[j].args = <<offset, limit>>}) = 1
            /\ \A j \in DOMAIN calls :
                 /\ calls[j].args[2] >= 1
                 /\ calls[j].args[2] <= pageSize
                 /\ calls[j].args[1] + calls[j].args[2] <= totalCount
            /\ totalCount = 0 => calls = <<>> /\ ret.value = <<>>

\* a successful run over three records in pages of two: the last page is
\* read with limit 1
C7_Witness ==
    /\ fn = "processPaginatedInParallel"
    /\ ret.state = "fulfilled"
    /\ totalCount = 3
    /\ pageSize = 2
    /\ Len(calls) = 2
    /\ calls[2].args = <<2, 1>>

RECURSIVE sumOfResults(_)
sumOfResults(S) ==
    IF S = {} THEN 0
    ELSE LET k == CHOOSE x \in S : TRUE
         IN  promises[k].value + sumOfResults(S \ {k})

\* C8: for chunkSize >= 1 and maxConcurrency >= 1 a successful
\* processChunksInParallelWithSum returns the sum of the numbers processChunk
\* returned over all chunks, hence the sum of the items when processChunk
\* sums its chunk, and returns 0 for an empty input without invoking
\* processChunk.
C8_SumOfChunkResults ==
    (fn = "processChunksInParallelWithSum" /\ chunkSize >= 1
        /\ maxConcurrency >= 1 /\ outer.state = "fulfilled") =>
        /\ DOMAIN promises = 0..(Len(chunks) - 1)
        /\ outer.value = sumOfResults(DOMAIN promises)
        /\ (\A k \in DOMAIN promises : promises[k].value = SumSeq(chunks[k + 1]))
              => outer.value = SumSeq(items)
        /\ Len(items) = 0 => outer.value = 0 /\ calls = <<>>

\* three chunks in two waves, each summed by processChunk, the first wave
\* settling in reverse order
C8_Witness ==
    /\ fn = "processChunksInParallelWithSum"
    /\ outer.state = "fulfilled"
    /\ Len(chunks) = 3
    /\ maxConcurrency = 2
    /\ settleLog[1].op = 1
    /\ \A k \in DOMAIN promises : promises[k].value = SumSeq(chunks[k + 1])
    /\ outer.value = SumSeq(items)
    /\ outer.value >= 4

RECURSIVE recordsOfPages(_)
recordsOfPages(S) ==
    IF S = {} THEN 0
    ELSE LET p == CHOOSE x \in S : TRUE
         IN  Len(promises[p].value) + recordsOfPages(S \ {p})

\* C9: in a successful processPaginatedWithProgress call with onProgress
\* supplied, onProgress was invoked exactly once for each page number in
\* 1..totalPages and not otherwise, always with totalPages as second
\* argument; recordsProcessed never decreases from one invocation to the
\* next and in the last invocation is the sum of the lengths of all page
\* results.
C9_ProgressReports ==
    (fn = "processPaginatedWithProgress" /\ onProgress /\ pageSize >= 1
        /\ outer.state = "fulfilled") =>
        LET n == (totalCount + pageSize - 1) \div pageSize
        IN  /\ Len(progressLog) = n
            /\ \A page \in 1..n :
                 Cardinality({j \in DOMAIN progressLog :
                                 progressLog[j].currentPage = page}) = 1
            /\ \A j \in DOMAIN progressLog : progressLog[j].totalPages = n
            /\ \A j \in 1..(Len(progressLog) - 1) :
                 progressLog[j].recordsProcessed <= progressLog[j + 1].recordsProcessed
            /\ n > 0 => progressLog[n].recordsProcessed = recordsOfPages(DOMAIN promises)
            /\ DOMAIN promises = 0..(n - 1)

\* a successful run of at least three pages whose first progress report is
\* for page 2 and whose last report counts every record
C9_Witness ==
    /\ fn = "processPaginatedWithProgress"
    /\ onProgress
    /\ outer.state = "fulfilled"
    /\ Len(progressLog) >= 3
    /\ progressLog[1].currentPage = 2
    /\ progressLog[Len(progressLog)].recordsProcessed = totalCount

\* what a call of either paginated function is determined to do by its
\* arguments and by the order and outcomes of the readPage settlements: the
\* j-th invocation is readPage for page j - 1, in wave (j - 1) div
\* maxConcurrency; the call resolves only with every page read and none
\* rejected, to the page results in page order; it rejects only with the
\* error of the readPage promise that rejected first, having started no wave
\* after that page's wave.
paginatedOutcome ==
    /\ \A j \in DOMAIN calls :
         /\ calls[j].op = j - 1
         /\ calls[j].args[1] = (j - 1) * pageSize
         /\ calls[j].args[2] = (IF totalCount - (j - 1) * pageSize < pageSize
                                THEN totalCount - (j - 1) * pageSize ELSE pageSize)
         /\ calls[j].wave = ((j - 1) \div maxConcurrency) + 1
    /\ callPromise.state = "fulfilled" =>
         /\ rejections = {}
         /\ pageSize >= 1 => Len(calls) = (totalCount + pageSize - 1) \div pageSize
         /\ \A j \in DOMAIN calls : promises[j - 1].state = "fulfilled"
         /\ callPromise.value = Flatten([j \in 1..Len(calls) |-> promises[j - 1].value])
    /\ callPromise.state = "rejected" =>
         /\ rejections # {}
         /\ callPromise.value = firstRejection.outcome.value
         /\ waves = (firstRejection.op \div maxConcurrency) + 1

onProgressThrew == \E j \in DOMAIN progressLog : progressLog[j].threw

sourcesWithKey(ks) ==
    {j \in DOMAIN sourceList : String(sourceList[j].id) = ks}

\* the source item with key ks that comes last in sourceList
lastWithKey(ks) ==
    sourceList[CHOOSE j \in sourcesWithKey(ks) : \A m \in sourcesWithKey(ks) : m <= j]

keyPresent(t) == sourcesWithKey(String(t.id)) # {}
keyAbsent(t) == sourcesWithKey(String(t.id)) = {}

\* C11: compareListsByKey classifies every target item once, in targetList
\* order: the targets whose string-coerced key some source item has give, in
\* order, the entries of found (the matched source item, or transformFound
\* of it and the target), the other targets are, in order, notFound; so
\* length(found) + length(notFound) = length(targetList).
C11_ClassifiesByKey ==
    (cpc = "done") =>
        LET hits == SelectSeq(targetList, keyPresent)
        IN  /\ notFound = SelectSeq(targetList, keyAbsent)
            /\ found = [j \in 1..Len(hits) |->
                          IF transformFound
                          THEN [source |-> lastWithKey(String(hits[j].id)),
                                target |-> hits[j]]
                          ELSE lastWithKey(String(hits[j].id))]
            /\ Len(found) + Len(notFound) = Len(targetList)

\* the source item an entry of found was made from, and the key it was
\* looked up with when transformFound records the target
sourceOf(entry) == IF transformFound THEN entry.source ELSE entry
lookupKeyOf(entry) ==
    IF transformFound THEN String(entry.target.id) ELSE String(entry.id)

\* C12: when several source items have the same string-coerced key, the
\* lookup holds the last of them in sourceList: every entry of found is (made
\* from) the last source item with the key its target was looked up with,
\* never an earlier one.
C12_LastSourceWins ==
    (cpc = "done") =>
        \A j \in DOMAIN found :
            /\ sourcesWithKey(lookupKeyOf(found[j])) # {}
            /\ sourceOf(found[j]) = lastWithKey(lookupKeyOf(found[j]))

\* two source items share the key "1", one as a number and one as a string;
\* the target with key 1 is matched with the later one
C12_Witness ==
    /\ cpc = "done"
    /\ transformFound
    /\ Len(sourceList) = 2
    /\ sourceList[1] = Object(NumberKey(1), "a")
    /\ sourceList[2] = Object(StringKey("1"), "c")
    /\ Len(found) = 1
    /\ found[1].source = sourceList[2]
    /\ found[1].target = Object(NumberKey(1), "t")

\* some operation of wave w has rejected
waveRejected(w) ==
    \E j \in callsOfWave(w) : operations[calls[j].op].state = "rejected"

\* C13: while an operation started in wave k has not settled and no
\* operation of wave k has rejected, the call has not settled and no
\* operation of a later wave has been started; so an operation that never
\* settles stalls the call for ever.
C13_HungOperationStalls ==
    \A j \in DOMAIN calls :
        (~settled(operations[calls[j].op]) /\ ~waveRejected(calls[j].wave)) =>
            /\ ret.state = "pending"
            /\ callPromise.state = "pending"
            /\ waves = calls[j].wave
            /\ pc = "await"

\* one operation of the first wave is still unsettled after its sibling
\* was fulfilled, and chunks of a second wave wait
C13_Witness ==
    /\ fn = "processChunksInParallel"
    /\ maxConcurrency = 2
    /\ Len(chunks) >= 3
    /\ waves = 1
    /\ promises[0].state = "fulfilled"
    /\ promises[1].state = "pending"

\* some callback promise or some operation has rejected
someRejected ==
    \E k \in DOMAIN promises :
        promises[k].state = "rejected" \/ operations[k].state = "rejected"

\* C14: once an operation has rejected, no processChunk or readPage
\* invocation is started any more, in processChunksInParallel,
\* processPaginatedInParallel and processPaginatedWithProgress.
C14_NoStartAfterRejection ==
    [][someRejected => (calls' = calls /\ waves' = waves)]_vars

\* processPaginatedWithProgress has failed on the first page, its sibling
\* settled afterwards, and pages of a second wave were never read
C14_Witness ==
    /\ fn = "processPaginatedWithProgress"
    /\ pageSize >= 1
    /\ maxConcurrency = 2
    /\ totalPages >= 3
    /\ outer.state = "rejected"
    /\ Len(calls) = 2
    /\ Len(settleLog) = 2
    /\ settleLog[1].outcome.state = "rejected"
    /\ microtasks = <<>>

\* indices into settleLog of the pages whose readPageWithProgress rejected
wrapperFailures ==
    {j \in DOMAIN settleLog : wrapped[settleLog[j].op].state = "rejected"}

\* the error of the readPageWithProgress promise that rejected first; the
\* continuations run in the order of settleLog
firstWrapperFailure ==
    wrapped[settleLog[CHOOSE j \in wrapperFailures :
                         \A m \in wrapperFailures : j <= m].op].value

\* C15: if an onProgress invocation throws, processPaginatedWithProgress
\* never resolves with a value: it fails, with the error of the first page
\* whose read or progress report failed, which is the onProgress error
\* unless a page has failed before.
C15_ProgressErrorFails ==
    (fn = "processPaginatedWithProgress" /\ onProgressThrew) =>
        /\ ret.state # "fulfilled"
        /\ outer.state # "fulfilled"
        /\ ret.state = "pending" =>
             (pc = "await" /\ all.state = "rejected" /\ all.value = firstWrapperFailure)
        /\ ret.state = "rejected" => ret.value = firstWrapperFailure
        /\ outer.state = "rejected" => outer.value = firstWrapperFailure
        /\ rejections = {} => firstWrapperFailure.error = "onProgress"

\* the call failed with the error onProgress threw in the second wave, the
\* records of the first wave being dropped
C15_Witness ==
    /\ fn = "processPaginatedWithProgress"
    /\ pageSize >= 1
    /\ outer.state = "rejected"
    /\ outer.value.error = "onProgress"
    /\ rejections = {}
    /\ waves = 2
    /\ Len(allResults) >= 1

validArguments == ~invalidArguments

\* ceil(ceil(length(items) / chunkSize) / maxConcurrency), and the same for
\* pages
maxWaves ==
    LET n == IF fn \in ChunkFns
             THEN (Len(items) + chunkSize - 1) \div chunkSize
             ELSE (totalCount + pageSize - 1) \div pageSize
    IN  (n + maxConcurrency - 1) \div maxConcurrency

\* C16: with chunkSize >= 1 (pageSize >= 1) and maxConcurrency >= 1, when
\* every started operation eventually settles, every call eventually
\* settles, and it never starts more than ceil(n / maxConcurrency) waves
\* for its n chunks or pages.
C16_Terminates ==
    /\ [](validArguments => waves <= maxWaves)
    /\ (validArguments ~> settled(callPromise))

\* a call over four chunks has resolved after its two waves
C16_Witness ==
    /\ fn = "processChunksInParallel"
    /\ validArguments
    /\ Len(chunks) = 4
    /\ maxConcurrency = 2
    /\ waves = 2
    /\ ret.state = "fulfilled"

\* C17 as stated: once the promise of processPaginatedWithProgress has
\* settled, onProgress is not invoked and recordsProcessed does not change.
C17_QuietAfterSettled ==
    [][settled(outer) =>
        (progressLog' = progressLog /\ recordsProcessed' = recordsProcessed)]_vars

\* C17 as amended: once the promise of processPaginatedWithProgress has
\* resolved with a value, onProgress is not invoked and recordsProcessed does
\* not change.
C17_QuietAfterResolved ==
    [][outer.state = "fulfilled" =>
        (progressLog' = progressLog /\ recordsProcessed' = recordsProcessed)]_vars

\* the call has resolved after two waves, every page reported
C17_Witness ==
    /\ fn = "processPaginatedWithProgress"
    /\ onProgress
    /\ pageSize >= 1
    /\ outer.state = "fulfilled"
    /\ waves = 2
    /\ Len(progressLog) >= 3
    /\ recordsProcessed >= 3

\* the page numbers onProgress was invoked with
reportedPages == {progressLog[j].currentPage : j \in DOMAIN progressLog}

\* C18: in a run of processPaginatedWithProgress in which no operation has
\* failed, every page of a wave has been reported to onProgress before
\* readPage is started for a page of the next wave, and between two waves
\* the reported page numbers are exactly the pages of the waves so far.
C18_ProgressRespectsWaves ==
    (fn = "processPaginatedWithProgress" /\ onProgress /\ pageSize >= 1
        /\ ~someRejected) =>
        /\ \A j \in DOMAIN calls :
             calls[j].wave < waves => (calls[j].op + 1) \in reportedPages
        /\ pc \in {"loop", "returned"} =>
             reportedPages = {calls[j].op + 1 : j \in DOMAIN calls}
        /\ reportedPages \subseteq {calls[j].op + 1 : j \in DOMAIN calls}

\* the second wave has been started after the two pages of the first wave
\* were reported in reverse order
C18_Witness ==
    /\ fn = "processPaginatedWithProgress"
    /\ onProgress
    /\ pageSize >= 1
    /\ ~someRejected
    /\ waves = 2
    /\ pc = "await"
    /\ Len(progressLog) = 2
    /\ progressLog[1].currentPage = 2
    /\ progressLog[2].currentPage = 1

\* C19: in processChunksInParallel with chunkSize >= 1 and maxConcurrency
\* >= 1 each chunk is passed to processChunk at most once, and exactly once
\* in a successful run; after wave k is complete, results holds the results
\* of the first min(k * maxConcurrency, n) chunks in chunk order, for n =
\* ceil(length(items) / chunkSize); the returned sequence has length n.
C19_LoopInvariant ==
    (fn \in ChunkFns /\ chunkSize >= 1 /\ maxConcurrency >= 1) =>
        LET n == (Len(items) + chunkSize - 1) \div chunkSize
            done == IF waves * maxConcurrency < n THEN waves * maxConcurrency ELSE n
        IN  /\ \A k \in 0..(n - 1) :
                 /\ Cardinality({j \in DOMAIN calls : calls[j].op = k}) <= 1
                 /\ ret.state = "fulfilled" =>
                      Cardinality({j \in DOMAIN calls : calls[j].op = k}) = 1
            /\ \A j \in DOMAIN calls :
                 calls[j].op \in 0..(n - 1) /\ calls[j].args = chunks[calls[j].op + 1]
            /\ pc = "loop" =>
                 /\ Len(results) = done
                 /\ \A k \in 0..(done - 1) : results[k + 1] = promises[k].value
            /\ ret.state = "fulfilled" => Len(ret.value) = n

\* the first of two waves is complete: results holds the results of the
\* first two of three chunks
C19_Witness ==
    /\ fn = "processChunksInParallel"
    /\ chunkSize = 1
    /\ maxConcurrency = 2
    /\ Len(items) = 3
    /\ pc = "loop"
    /\ waves = 1
    /\ Len(results) = 2
    /\ results[1] # results[2]
====
